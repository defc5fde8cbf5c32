SPECIFICATION FairSpec
CONSTANTS
  b1 = b1
  Builders = {b1}
  Default = default
  NoClient = NoClient
  CLIENT_BUFFER_LEN = 1
  Polled <- PolledMC
  MaxSessions = 2
  MaxStreams = 2
  MaxClients = 2
  MaxOthers = 3
  MaxSent = 4
PROPERTIES FinishesStreamOnly
CHECK_DEADLOCK FALSE
