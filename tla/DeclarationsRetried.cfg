SPECIFICATION Spec
CONSTANTS
  n = n
  c = c
  Nodes <- MCNodes
  Contexts <- MCContexts
  Parent <- MCParent
  Decls = {d}
  Handlers = {h1}
  Replay = replay
  MaxFaults = 1
  DeltaFirst = TRUE
INVARIANTS
  AckedIsDeclared
