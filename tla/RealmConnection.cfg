SPECIFICATION FairSpec
CONSTANTS
  MaxClients = 4
  MaxFaults = 3
  BackoffStart = 1
  BackoffMax = 3
  BackoffMaxUnauthorized = 6
INVARIANTS
  TypeOK
  SingleLifeline
  NoZombieClient
  BacksOff
PROPERTIES
  ImplementsSession
  Recovers
CHECK_DEADLOCK FALSE
