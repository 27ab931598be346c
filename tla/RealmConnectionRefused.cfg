SPECIFICATION Spec
CONSTANTS
  MaxClients = 3
  MaxFaults = 2
  BackoffStart = 1
  BackoffMax = 3
  BackoffMaxUnauthorized = 6
INVARIANTS
  ErrorMeansRefused
CHECK_DEADLOCK FALSE
