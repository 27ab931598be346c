SPECIFICATION FairSpec
CONSTANTS
  n = n
  c = c
  Nodes <- MCNodes
  Contexts <- MCContexts
  Parent <- MCParent
  Decls = {d, e}
  Handlers = {h1}
  Replay = replay
  MaxFaults = 2
  DeltaFirst = TRUE
INVARIANTS
  InitialValuesKept
PROPERTIES
  EventuallyDeclared
