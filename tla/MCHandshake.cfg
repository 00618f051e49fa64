CONSTANTS
  None = None
  CA = CA
  OtherCA = OtherCA
  ech1 = ech1
  ech2 = ech2
  ServerName <- Name
  PublicName <- Public
  TicketLifetime = 1
  ClientConfigs <- Clients
  ServerConfigs <- Servers
  MaxConns = 3
  MaxTime = 2
  MaxFaults = 1
SPECIFICATION Spec
INVARIANTS
  TypeOK
  Agreement
  NoDowngrade
  EncryptedHello
  SessionMatchesTicket
  NoMutualWait
PROPERTIES
  ServerAuthenticated
  ClientAuthHonoured
CHECK_DEADLOCK FALSE
